---- MODULE Spec2Model ----
(***************************************************************************)
(* A model of the meal planner's allocation engine:                        *)
(*   meal_planner/recommender.py  scoring, serving sizes, the day's slots  *)
(*   meal_planner/planner.py      weekly generation, persistence,          *)
(*                                single-meal regeneration                 *)
(*   meal_planner/recipe_store.py the recipe catalog                       *)
(*                                                                         *)
(* Arithmetic.  The source computes in floating point; the model computes  *)
(* exactly, in integers:                                                   *)
(*   - a nutrition amount is an integer number of units (the unit is       *)
(*     arbitrary: scores and serving sizes depend on ratios only);         *)
(*   - a serving size is held in quarters (servings 1.0 is 4, 0.5 is 2,    *)
(*     2.0 is 8): _optimal_servings only ever returns multiples of 0.25;   *)
(*   - a meal-calorie split is held in twentieths (0.25 is 5/20).          *)
(* Recipe amounts are multiples of 4 and daily targets multiples of 20 so  *)
(* that Nutrition.scaled and _meal_target divide exactly.                  *)
(***************************************************************************)
EXTENDS Integers, Sequences, FiniteSets, TLC

\* ------------------------------------------------------------------ bounds
\* Largest recipe calorie value (in units of 4) and largest target calorie
\* value drawn for the pure-function specification.
MaxFnRecipeCal == 5
MaxFnTargetCal == 24
\* Largest amount (in units of 4) of a recipe or target field drawn for
\* _recipe_score, and largest field (in units of 60) of a daily target drawn
\* for _meal_target.
MaxScoreAmount == 2
MaxSplitAmount == 2

\* ------------------------------------------------------- program constants
MEALS_PER_DAY == 3
VARIETY_WINDOW_DAYS == 21
\* Denominator of MEAL_CALORIE_SPLITS (twentieths) and of servings (quarters).
SplitDen == 20
ServDen == 4
\* 1.0, 0.5 and 2.0 servings, in quarters.
DEFAULT_SERVINGS == 4
MIN_SERVINGS == 2
MAX_SERVINGS == 8
TOP_N == 5
MIN_CANDIDATES == 3
DAYS == 7

\* A variant of the table in which dinner gets 0.35.
MEAL_CALORIE_SPLITS_Short == [breakfast |-> 5, lunch |-> 7, dinner |-> 7]

\* MEAL_CALORIE_SPLITS, in twentieths (0.25, 0.35, 0.40).
MEAL_CALORIE_SPLITS == [breakfast |-> 5, lunch |-> 7, dinner |-> 8]

\* Weights of calories, protein, carbs, fat, in halves (1.0, 1.5, 1.0, 1.0).
MACRO_SCORE_WEIGHTS == [calories |-> 2, protein |-> 3, carbs |-> 2, fat |-> 2]

\* A variant of the slot order that stops after lunch.
meal_orderNoDinner == <<"breakfast", "lunch">>

\* meal_order: the slots of a day, in the order they are filled.
meal_order == <<"breakfast", "lunch", "dinner">>

\* ----------------------------------------------------------------- helpers
Min(a, b) == IF a < b THEN a ELSE b

Max(a, b) == IF a > b THEN a ELSE b

Abs(a) == IF a < 0 THEN 0 - a ELSE a

\* A variant of round() that truncates.
RoundDown(num, den) == num \div den

\* Python's round() on the exact quotient num/den (num >= 0, den > 0):
\* to the nearest integer, a tie to the even one.
RoundHalfEven(num, den) ==
    LET q == num \div den
        r == num % den
    IN  IF 2 * r < den THEN q
        ELSE IF 2 * r > den THEN q + 1
        ELSE IF q % 2 = 0 THEN q ELSE q + 1

\* Optional values: None, or Some(v).
None == <<>>

Some(v) == <<v>>

Get(o) == o[1]

\* --------------------------------------------------------------- Nutrition
Nutrition(c, p, cb, f) == [calories |-> c, protein_g |-> p, carbs_g |-> cb, fat_g |-> f]

NutritionZero == Nutrition(0, 0, 0, 0)

\* Nutrition.scaled(servings), servings in quarters.
scaled(n, servings) ==
    Nutrition((n.calories * servings) \div ServDen,
              (n.protein_g * servings) \div ServDen,
              (n.carbs_g * servings) \div ServDen,
              (n.fat_g * servings) \div ServDen)

\* Nutrition.__add__
NutritionAdd(a, b) ==
    Nutrition(a.calories + b.calories, a.protein_g + b.protein_g,
              a.carbs_g + b.carbs_g, a.fat_g + b.fat_g)

\* A recipe: its id, its title (the rank of the title in the catalog's sort
\* order), its meal-type tags and its nutrition per serving (None or Some).
Recipe(id, title, meal_types, nutrition) ==
    [id |-> id, title |-> title, meal_types |-> meal_types, nutrition |-> nutrition]

\* ------------------------------------------------------------- recommender
\* One term of _recipe_score's deviation sum, over the common denominator
\* 2 * (product of the positive target fields): the weight (in halves) times
\* |actual - target| times the other positive target fields.
PosOr1(x) == IF x > 0 THEN x ELSE 1

\* A variant of the term with the signed difference in place of abs().
DevTermSigned(w, a, t, o1, o2, o3) ==
    IF t > 0 THEN w * (a - t) * PosOr1(o1) * PosOr1(o2) * PosOr1(o3) ELSE 0

\* A variant of the term without the guard on the target.
DevTermUnguarded(w, a, t, o1, o2, o3) ==
    w * Abs(a - t) * PosOr1(o1) * PosOr1(o2) * PosOr1(o3)

DevTerm(w, a, t, o1, o2, o3) ==
    IF t > 0 THEN w * Abs(a - t) * PosOr1(o1) * PosOr1(o2) * PosOr1(o3) ELSE 0

\* A variant of the deviation sum that leaves the fat term out.
DeviationsNoFat(n, target, servings) ==
    LET actual == scaled(n, servings)
        w == MACRO_SCORE_WEIGHTS
        tc == target.calories
        tp == target.protein_g
        tb == target.carbs_g
        tf == target.fat_g
    IN  [dev |-> DevTerm(w.calories, actual.calories, tc, tp, tb, tf)
               + DevTerm(w.protein, actual.protein_g, tp, tc, tb, tf)
               + DevTerm(w.carbs, actual.carbs_g, tb, tc, tp, tf),
         den |-> 2 * PosOr1(tc) * PosOr1(tp) * PosOr1(tb) * PosOr1(tf)]

\* The deviation sum of _recipe_score as the fraction dev / den.
Deviations(n, target, servings) ==
    LET actual == scaled(n, servings)
        w == MACRO_SCORE_WEIGHTS
        tc == target.calories
        tp == target.protein_g
        tb == target.carbs_g
        tf == target.fat_g
    IN  [dev |-> DevTerm(w.calories, actual.calories, tc, tp, tb, tf)
               + DevTerm(w.protein, actual.protein_g, tp, tc, tb, tf)
               + DevTerm(w.carbs, actual.carbs_g, tb, tc, tp, tf)
               + DevTerm(w.fat, actual.fat_g, tf, tc, tp, tb),
         den |-> 2 * PosOr1(tc) * PosOr1(tp) * PosOr1(tb) * PosOr1(tf)]

\* A variant of the score without the 1 of the denominator: 1 / (dev/den).
RecipeScoreNoOne(recipe, target_nutrition, servings) ==
    IF recipe.nutrition = None THEN [num |-> 0, den |-> 1]
    ELSE LET d == Deviations(Get(recipe.nutrition), target_nutrition, servings)
         IN  [num |-> d.den, den |-> d.dev]

\* _recipe_score: the score 1 / (1 + dev/den) as the fraction num / den,
\* and 0/1 for a recipe without nutrition.
_recipe_score(recipe, target_nutrition, servings) ==
    IF recipe.nutrition = None THEN [num |-> 0, den |-> 1]
    ELSE LET d == Deviations(Get(recipe.nutrition), target_nutrition, servings)
         IN  [num |-> d.den, den |-> d.den + d.dev]

\* Whether score a is strictly higher than score b, for two scores taken
\* against the same target (equal numerators, unless one is the 0/1 of a
\* recipe without nutrition).
ScoreHigher(a, b) ==
    IF a.num = 0 THEN FALSE
    ELSE IF b.num = 0 THEN TRUE
    ELSE a.den < b.den

\* _meal_target: every field times the meal type's fraction (a third for a
\* meal type that is not in the table).
Fraction(meal_type) ==
    IF meal_type \in DOMAIN MEAL_CALORIE_SPLITS
    THEN [num |-> MEAL_CALORIE_SPLITS[meal_type], den |-> SplitDen]
    ELSE [num |-> 1, den |-> MEALS_PER_DAY]

_meal_target(targets, meal_type) ==
    LET fr == Fraction(meal_type)
    IN  Nutrition((targets.calories * fr.num) \div fr.den,
                  (targets.protein_g * fr.num) \div fr.den,
                  (targets.carbs_g * fr.num) \div fr.den,
                  (targets.fat_g * fr.num) \div fr.den)

\* _optimal_servings, in quarters: round(raw * 4), clamped to [0.5, 2.0].
OptimalServingsUnclamped(recipe, target) ==
    IF recipe.nutrition = None \/ Get(recipe.nutrition).calories = 0
    THEN DEFAULT_SERVINGS
    ELSE RoundHalfEven(target.calories * ServDen, Get(recipe.nutrition).calories)

_optimal_servings(recipe, target) ==
    IF recipe.nutrition = None \/ Get(recipe.nutrition).calories = 0
    THEN DEFAULT_SERVINGS
    ELSE Max(MIN_SERVINGS,
             Min(MAX_SERVINGS,
                 RoundHalfEven(target.calories * ServDen,
                               Get(recipe.nutrition).calories)))

\* A scored candidate of a slot, and the stable descending sort of
\* scored.sort(key=lambda x: x[0], reverse=True): equal scores keep the order
\* in which the candidates were appended.
InsertStable(t, x) ==
    LET k == Cardinality({i \in DOMAIN t : ~ScoreHigher(x.score, t[i].score)})
    IN  SubSeq(t, 1, k) \o <<x>> \o SubSeq(t, k + 1, Len(t))

RECURSIVE SortScored(_)
SortScored(s) ==
    IF s = <<>> THEN <<>>
    ELSE InsertStable(SortScored(SubSeq(s, 1, Len(s) - 1)), s[Len(s)])

\* A variant that forgets the recipes already chosen for the day.
UsedIdsNone(selected) == {}

\* The ids a list of selected meals uses (used_today).
UsedIds(selected) == {selected[k].recipe.id : k \in DOMAIN selected}

\* A variant that keeps every recipe, a missing nutrition taken as zero.
AvailableZeroFilled(all_recipes) ==
    [k \in DOMAIN all_recipes |->
        IF all_recipes[k].nutrition = None
        THEN [all_recipes[k] EXCEPT !.nutrition = Some(NutritionZero)]
        ELSE all_recipes[k]]

\* available: the recipes with nutrition data, in catalog order.
Available(all_recipes) == SelectSeq(all_recipes, LAMBDA r : r.nutrition # None)

\* Variants of the filters: tier 1 without the variety exclusion, tier 3
\* never offering a recipe.
Tier1NoVariety(available, meal_type, recently_used_ids, used_today) ==
    SelectSeq(available, LAMBDA r : /\ meal_type \in r.meal_types
                                    /\ r.id \notin used_today)

Tier3Empty(available, used_today) == <<>>

\* A variant of tier 2 that never offers a recipe.
Tier2Empty(available, meal_type, used_today) == <<>>

\* The three candidate filters of a slot.
Tier1(available, meal_type, recently_used_ids, used_today) ==
    SelectSeq(available, LAMBDA r : /\ meal_type \in r.meal_types
                                    /\ r.id \notin recently_used_ids
                                    /\ r.id \notin used_today)

Tier2(available, meal_type, used_today) ==
    SelectSeq(available, LAMBDA r : /\ meal_type \in r.meal_types
                                    /\ r.id \notin used_today)

Tier3(available, used_today) ==
    SelectSeq(available, LAMBDA r : r.id \notin used_today)

\* A variant that relaxes the variety exclusion whatever tier 1 yields.
SlotTierRelaxed(available, meal_type, recently_used_ids, used_today) ==
    IF Tier2(available, meal_type, used_today) # <<>> THEN 2
    ELSE IF Tier3(available, used_today) # <<>> THEN 3
    ELSE 0

\* The tier whose candidates the slot uses: 1, 2, 3, or 0 when the slot
\* stays unfilled.
SlotTier(available, meal_type, recently_used_ids, used_today) ==
    IF Len(Tier1(available, meal_type, recently_used_ids, used_today)) >= MIN_CANDIDATES
    THEN 1
    ELSE IF Tier2(available, meal_type, used_today) # <<>> THEN 2
    ELSE IF Tier3(available, used_today) # <<>> THEN 3
    ELSE 0

\* Variants of the candidates: tier 1 only, and without the last resort.
CandidatesTier1Only(available, meal_type, recently_used_ids, used_today) ==
    Tier1(available, meal_type, recently_used_ids, used_today)

CandidatesNoLastResort(available, meal_type, recently_used_ids, used_today) ==
    IF Len(Tier1(available, meal_type, recently_used_ids, used_today)) >= MIN_CANDIDATES
    THEN Tier1(available, meal_type, recently_used_ids, used_today)
    ELSE Tier2(available, meal_type, used_today)

\* candidates: the recipes the slot chooses from.
Candidates(available, meal_type, recently_used_ids, used_today) ==
    LET tier == SlotTier(available, meal_type, recently_used_ids, used_today)
    IN  IF tier = 1 THEN Tier1(available, meal_type, recently_used_ids, used_today)
        ELSE IF tier = 2 THEN Tier2(available, meal_type, used_today)
        ELSE IF tier = 3 THEN Tier3(available, used_today)
        ELSE <<>>

\* A variant of remaining without the clamp at 0.
RemainingUnclamped(targets, consumed) ==
    Nutrition(targets.calories - consumed.calories,
              targets.protein_g - consumed.protein_g,
              targets.carbs_g - consumed.carbs_g,
              targets.fat_g - consumed.fat_g)

\* remaining: the daily target minus what the day's earlier meals consumed,
\* every field at least 0.
Remaining(targets, consumed) ==
    Nutrition(Max(0, targets.calories - consumed.calories),
              Max(0, targets.protein_g - consumed.protein_g),
              Max(0, targets.carbs_g - consumed.carbs_g),
              Max(0, targets.fat_g - consumed.fat_g))

\* meal_target of a slot: the remainder for dinner, the split otherwise.
SlotTarget(targets, meal_type, consumed) ==
    IF meal_type = "dinner" THEN Remaining(targets, consumed)
    ELSE _meal_target(targets, meal_type)

\* scored, sorted: every candidate with its optimal servings and its score.
Scored(candidates, meal_target) ==
    SortScored([k \in DOMAIN candidates |->
        LET servings == _optimal_servings(candidates[k], meal_target)
        IN  [score |-> _recipe_score(candidates[k], meal_target, servings),
             recipe |-> candidates[k],
             servings |-> servings]])

\* A variant that picks anywhere in the sorted list.
PickRangeAll(scored) == 0 .. (Len(scored) - 1)

\* The picks random.randint(0, top_n - 1) can make (0 alone when top_n is 1).
PickRange(scored) == 0 .. (Min(TOP_N, Len(scored)) - 1)

\* A selected meal: the tuple (meal_type, best_recipe, best_servings) the
\* source appends, with the slot's meal_target and the tier its candidates
\* came from kept beside it.
Selected(meal_type, pick, meal_target, tier) ==
    [meal_type |-> meal_type, recipe |-> pick.recipe, servings |-> pick.servings,
     meal_target |-> meal_target, tier |-> tier]

\* The loop of recommend_daily_meals from slot i on: the set of lists it can
\* return, one for every sequence of random picks.
RECURSIVE DaySlots(_, _, _, _, _, _)
DaySlots(i, targets, available, recently_used_ids, selected, consumed) ==
    IF i > Len(meal_order) THEN {selected}
    ELSE
      LET meal_type == meal_order[i]
          used_today == UsedIds(selected)
          tier == SlotTier(available, meal_type, recently_used_ids, used_today)
          candidates == Candidates(available, meal_type, recently_used_ids, used_today)
          meal_target == SlotTarget(targets, meal_type, consumed)
          scored == Scored(candidates, meal_target)
      IN  IF candidates = <<>>
          THEN DaySlots(i + 1, targets, available, recently_used_ids, selected, consumed)
          ELSE UNION {
                 DaySlots(i + 1, targets, available, recently_used_ids,
                          Append(selected, Selected(meal_type, scored[idx + 1], meal_target, tier)),
                          NutritionAdd(consumed,
                                       scaled(Get(scored[idx + 1].recipe.nutrition),
                                              scored[idx + 1].servings)))
                 : idx \in PickRange(scored) }

\* recommend_daily_meals(targets, all_recipes, recently_used_ids): the set of
\* its possible results.
recommend_daily_meals(targets, all_recipes, recently_used_ids) ==
    DaySlots(1, targets, Available(all_recipes), recently_used_ids, <<>>, NutritionZero)

\* ----------------------------------------------------------- recipe_store
\* ORDER BY title: the stable insertion of a row into a list sorted by title.
InsertByTitle(t, r) ==
    LET k == Cardinality({i \in DOMAIN t : t[i].title <= r.title})
    IN  SubSeq(t, 1, k) \o <<r>> \o SubSeq(t, k + 1, Len(t))

RECURSIVE OrderByTitle(_)
OrderByTitle(rows) ==
    IF rows = <<>> THEN <<>>
    ELSE InsertByTitle(OrderByTitle(SubSeq(rows, 1, Len(rows) - 1)), rows[Len(rows)])

\* get_all_recipes: every row of table recipes, ordered by title.
get_all_recipes(recipes_table) == OrderByTitle(recipes_table)

\* save_recipe: a new row, its id the next of the AUTOINCREMENT key.
save_recipe(recipes_table, recipe) ==
    Append(recipes_table, [recipe EXCEPT !.id = Len(recipes_table) + 1])

\* ----------------------------------------------------------------- planner
\* A row of meal_plans and a row of meal_plan_entries.
PlanRow(user_id, week_start_date) ==
    [user_id |-> user_id, week_start_date |-> week_start_date]

EntryRow(meal_plan_id, day_of_week, meal_type, recipe_id, servings) ==
    [meal_plan_id |-> meal_plan_id, day_of_week |-> day_of_week,
     meal_type |-> meal_type, recipe_id |-> recipe_id, servings |-> servings]

\* A variant that numbers the days from 1.
MealPlanEntryFromOne(day_of_week, meal, exclusion_set) ==
    [meal_plan_id |-> 0, day_of_week |-> day_of_week + 1, meal_type |-> meal.meal_type,
     recipe_id |-> meal.recipe.id, servings |-> meal.servings, recipe |-> meal.recipe,
     tier |-> meal.tier, exclusion_set |-> exclusion_set]

\* MealPlanEntry as generate_weekly_plan builds it (meal_plan_id 0, the
\* recipe attached), with the tier its slot was filled from and the
\* exclusion set its day was recommended with kept beside it.
MealPlanEntry(day_of_week, meal, exclusion_set) ==
    [meal_plan_id |-> 0, day_of_week |-> day_of_week, meal_type |-> meal.meal_type,
     recipe_id |-> meal.recipe.id, servings |-> meal.servings, recipe |-> meal.recipe,
     tier |-> meal.tier, exclusion_set |-> exclusion_set]

\* A variant of the exclusion set that forgets the earlier weeks.
ExclusionSetWeekOnly(recently_used, week_used) == week_used

\* exclusion_set = recently_used | week_used
ExclusionSet(recently_used, week_used) == recently_used \cup week_used

\* _get_recently_used_recipe_ids: dates are day numbers (the source compares
\* ISO-8601 strings, whose order is the order of the dates).  The query keeps
\* every plan of the user whose week_start_date is at or after the cutoff.
_get_recently_used_recipe_ids(plans, entries, user_id, before_date, window_days) ==
    LET cutoff == before_date - window_days
    IN  {entries[k].recipe_id : k \in
            {k \in DOMAIN entries :
                /\ plans[entries[k].meal_plan_id].user_id = user_id
                /\ plans[entries[k].meal_plan_id].week_start_date >= cutoff}}

\* The loop over the days of generate_weekly_plan from `d` on: the set of
\* entry lists it can end with.
RECURSIVE WeekDays(_, _, _, _, _, _)
WeekDays(d, targets, all_recipes, recently_used, entries, week_used) ==
    IF d >= DAYS THEN {entries}
    ELSE UNION {
           WeekDays(d + 1, targets, all_recipes, recently_used,
                    entries \o [k \in DOMAIN daily_meals |->
                                   MealPlanEntry(d, daily_meals[k],
                                                 ExclusionSet(recently_used, week_used))],
                    week_used \cup UsedIds(daily_meals))
           : daily_meals \in recommend_daily_meals(targets, all_recipes,
                                                   ExclusionSet(recently_used, week_used)) }

\* generate_weekly_plan: the set of plans it can return.
generate_weekly_plan(plans, entries, recipes_table, user_id, targets, week_start) ==
    LET all_recipes == get_all_recipes(recipes_table)
        recently_used == _get_recently_used_recipe_ids(plans, entries, user_id, week_start,
                                                       VARIETY_WINDOW_DAYS)
    IN  {[user_id |-> user_id, week_start_date |-> week_start, entries |-> es]
            : es \in WeekDays(0, targets, all_recipes, recently_used, <<>>, {})}

\* save_meal_plan: one row in meal_plans, one row per entry in
\* meal_plan_entries; returns the tables and the new plan id.
save_meal_plan(plans, entries, p) ==
    LET plan_id == Len(plans) + 1
    IN  [meal_plans |-> Append(plans, PlanRow(p.user_id, p.week_start_date)),
         meal_plan_entries |-> entries \o
            [k \in DOMAIN p.entries |->
                EntryRow(plan_id, p.entries[k].day_of_week, p.entries[k].meal_type,
                         p.entries[k].recipe_id, p.entries[k].servings)],
         plan_id |-> plan_id]

\* load_meal_plan.  The entries of a plan in the order of ORDER BY
\* day_of_week, meal_type: by day, and within a day by the meal type's name.
LoadOrder == <<"breakfast", "dinner", "lunch">>

RECURSIVE PlanEntriesFrom(_, _, _)
PlanEntriesFrom(entries, plan_id, slot) ==
    IF slot >= DAYS * Len(LoadOrder) THEN <<>>
    ELSE SelectSeq(entries,
                   LAMBDA e : /\ e.meal_plan_id = plan_id
                              /\ e.day_of_week = slot \div Len(LoadOrder)
                              /\ e.meal_type = LoadOrder[(slot % Len(LoadOrder)) + 1])
         \o PlanEntriesFrom(entries, plan_id, slot + 1)

\* The row fetchone() returns is the first row of a SELECT without ORDER BY
\* over the plans of (user_id, week_start): any of them (SQLite's index scan
\* gives the one with the lowest id).  The set of possible results.
load_meal_plan(plans, entries, user_id, week_start) ==
    LET rows == {k \in DOMAIN plans : /\ plans[k].user_id = user_id
                                       /\ plans[k].week_start_date = week_start}
    IN  IF rows = {} THEN {None}
        ELSE {Some([id |-> k, user_id |-> user_id, week_start_date |-> week_start,
                    entries |-> PlanEntriesFrom(entries, k, 0)]) : k \in rows}

\* regenerate_meal, its parts.  used_ids: the recipe ids of the plan.
PlanRecipeIds(entries, plan_id) ==
    {entries[k].recipe_id : k \in {k \in DOMAIN entries : entries[k].meal_plan_id = plan_id}}

\* exclusion = used_ids | recently_used
RegenExclusion(used_ids, recently_used) == used_ids \cup recently_used

\* A variant that takes the first meal of the day whatever its meal type.
NewMealFirst(daily, meal_type) ==
    IF daily = <<>> THEN None ELSE Some(daily[1])

\* new_meal: the first meal of the day's recommendation with the meal type.
NewMeal(daily, meal_type) ==
    LET hits == {k \in DOMAIN daily : daily[k].meal_type = meal_type}
    IN  IF hits = {} THEN None
        ELSE Some(daily[CHOOSE k \in hits : \A j \in hits : k <= j])

\* A variant of the UPDATE without the meal_plan_id condition.
UpdateEntryAnyPlan(entries, plan_id, day_of_week, meal_type, recipe_id, servings) ==
    [k \in DOMAIN entries |->
        IF /\ entries[k].day_of_week = day_of_week
           /\ entries[k].meal_type = meal_type
        THEN [entries[k] EXCEPT !.recipe_id = recipe_id, !.servings = servings]
        ELSE entries[k]]

\* UPDATE meal_plan_entries SET recipe_id, servings
\*   WHERE meal_plan_id = ? AND day_of_week = ? AND meal_type = ?
UpdateEntry(entries, plan_id, day_of_week, meal_type, recipe_id, servings) ==
    [k \in DOMAIN entries |->
        IF /\ entries[k].meal_plan_id = plan_id
           /\ entries[k].day_of_week = day_of_week
           /\ entries[k].meal_type = meal_type
        THEN [entries[k] EXCEPT !.recipe_id = recipe_id, !.servings = servings]
        ELSE entries[k]]

\* regenerate_meal: the set of its possible outcomes, each the returned
\* entry (None: no replacement), the table meal_plan_entries after the call
\* and the locals used_ids, exclusion, and the new meal as selected.
regenerate_meal(plans, entries, recipes_table, plan_id, day_of_week, meal_type, targets) ==
    LET all_recipes == get_all_recipes(recipes_table)
    IN  IF plan_id \notin DOMAIN plans
        THEN {[result |-> None, meal_plan_entries |-> entries,
               used_ids |-> {}, exclusion |-> {}, new_meal |-> None]}
        ELSE
          LET plan_row == plans[plan_id]
              used_ids == PlanRecipeIds(entries, plan_id)
              recently_used == _get_recently_used_recipe_ids(
                                   plans, entries, plan_row.user_id,
                                   plan_row.week_start_date, VARIETY_WINDOW_DAYS)
              exclusion == RegenExclusion(used_ids, recently_used)
          IN  { LET new_meal == NewMeal(daily, meal_type)
                IN  IF new_meal = None
                    THEN [result |-> None, meal_plan_entries |-> entries,
                          used_ids |-> used_ids, exclusion |-> exclusion,
                          new_meal |-> None]
                    ELSE [result |-> Some(EntryRow(plan_id, day_of_week, meal_type,
                                                   Get(new_meal).recipe.id,
                                                   Get(new_meal).servings)),
                          meal_plan_entries |->
                              UpdateEntry(entries, plan_id, day_of_week, meal_type,
                                          Get(new_meal).recipe.id, Get(new_meal).servings),
                          used_ids |-> used_ids, exclusion |-> exclusion,
                          new_meal |-> new_meal]
                : daily \in recommend_daily_meals(targets, all_recipes, exclusion) }

\* ------------------------------------------------------------------- state
VARIABLES
    fn,                 \* a call of a pure function: its arguments and result
    day,                \* a call of recommend_daily_meals: arguments and result
    recipes,            \* table recipes (with recipe_nutrition), by id
    meal_plans,         \* table meal_plans, by id
    meal_plan_entries,  \* table meal_plan_entries, by row id
    plan,               \* the MealPlan generate_weekly_plan returned, not yet saved
    last,               \* the last call of the planner: arguments, result, tables before
    calls               \* the regenerate_meal calls running side by side, by caller

vars == <<fn, day, recipes, meal_plans, meal_plan_entries, plan, last, calls>>

NoCall == [op |-> "none"]

\* ------------------------------------------------------------ sample data
\* Recipes: id, title rank, meal types, nutrition per serving.
B1 == Recipe(1, 3, {"breakfast"}, Some(Nutrition(16, 4, 8, 4)))
L1 == Recipe(2, 1, {"lunch"}, Some(Nutrition(20, 8, 12, 8)))
D1 == Recipe(3, 5, {"dinner"}, Some(Nutrition(24, 8, 16, 8)))
M1 == Recipe(4, 2, {"breakfast", "lunch"}, Some(Nutrition(12, 4, 12, 4)))
X1 == Recipe(5, 4, {"lunch"}, None)
L2 == Recipe(6, 6, {"lunch"}, Some(Nutrition(28, 4, 16, 4)))
L3 == Recipe(7, 7, {"lunch"}, Some(Nutrition(8, 8, 8, 4)))
L4 == Recipe(8, 8, {"lunch"}, Some(Nutrition(0, 4, 4, 0)))
L5 == Recipe(9, 9, {"lunch"}, Some(Nutrition(16, 4, 12, 4)))
L6 == Recipe(10, 10, {"lunch"}, Some(Nutrition(24, 12, 8, 8)))
L7 == Recipe(11, 11, {"lunch"}, Some(Nutrition(32, 8, 20, 12)))

\* Daily targets (MacroTargets; bmr and tdee are never read by the engine).
T1 == Nutrition(60, 20, 40, 20)
T2 == Nutrition(120, 60, 0, 20)

\* The subsequences of a list of recipes.
SubCatalogs(pool) ==
    {SelectSeq(pool, LAMBDA r : r.id \in S) : S \in SUBSET {pool[k].id : k \in DOMAIN pool}}

Ids(rs) == {rs[k].id : k \in DOMAIN rs}

\* ------------------------------------------- specification: pure functions
\* The recipes and targets _optimal_servings is applied to: no nutrition, or
\* calories 0, 4, ..., 4 * MaxFnRecipeCal; target calories 0 .. MaxFnTargetCal.
FnRecipes ==
    {Recipe(1, 1, {"lunch"}, None)}
    \cup {Recipe(1, 1, {"lunch"}, Some(Nutrition(4 * c, 4, 4, 4))) : c \in 0 .. MaxFnRecipeCal}

FnTargets == {Nutrition(t, 20, 20, 20) : t \in 0 .. MaxFnTargetCal}

\* The recipes, targets and servings _recipe_score is applied to: pairs of
\* recipes scored against one target with equal servings (0.5, 1.0, 2.0).
ScoreAmounts == {4 * k : k \in 0 .. MaxScoreAmount}

ScoreRecipes ==
    {Recipe(1, 1, {"lunch"}, None)}
    \cup {Recipe(1, 1, {"lunch"}, Some(Nutrition(c, 4, cb, f)))
            : c \in ScoreAmounts, cb \in ScoreAmounts, f \in {4, 8}}

ScoreTargets ==
    {Nutrition(c, p, cb, f) : c \in ScoreAmounts, p \in {0, 4}, cb \in {0, 8}, f \in {0, 8}}

ScoreServings == {MIN_SERVINGS, DEFAULT_SERVINGS, MAX_SERVINGS}

\* The daily targets _meal_target is applied to (multiples of 60: the
\* twentieths and the third divide exactly), and the meal types asked for.
SplitTargets ==
    {Nutrition(60 * c, 60 * p, 60 * cb, 60 * f)
        : c \in 0 .. MaxSplitAmount, p \in 0 .. MaxSplitAmount,
          cb \in 0 .. MaxSplitAmount, f \in 0 .. MaxSplitAmount}

SplitMealTypes == {"breakfast", "lunch", "dinner", "snack"}

InitFn ==
    /\ fn \in {[op |-> "call", recipe |-> r, target |-> t, result |-> None]
                 : r \in FnRecipes, t \in FnTargets}
            \cup {[op |-> "call_score", recipe |-> a, other |-> b, target |-> t,
                   servings |-> sv, result |-> None, other_result |-> None]
                 : a \in ScoreRecipes, b \in ScoreRecipes, t \in ScoreTargets,
                   sv \in ScoreServings}
            \cup {[op |-> "call_meal_target", targets |-> t, result |-> None]
                 : t \in SplitTargets}
    /\ day = NoCall
    /\ recipes = <<>>
    /\ meal_plans = <<>>
    /\ meal_plan_entries = <<>>
    /\ plan = None
    /\ calls = <<>>
    /\ last = NoCall

OptimalServingsCall ==
    /\ fn.op = "call"
    /\ fn' = [fn EXCEPT !.op = "optimal_servings",
                        !.result = Some(_optimal_servings(fn.recipe, fn.target))]
    /\ UNCHANGED <<day, recipes, meal_plans, meal_plan_entries, plan, last, calls>>

\* _recipe_score(recipe, target, servings) and _recipe_score(other, target,
\* servings): the two calls of a comparison.
RecipeScoreCall ==
    /\ fn.op = "call_score"
    /\ fn' = [fn EXCEPT !.op = "recipe_score",
                        !.result = Some(_recipe_score(fn.recipe, fn.target, fn.servings)),
                        !.other_result = Some(_recipe_score(fn.other, fn.target, fn.servings))]
    /\ UNCHANGED <<day, recipes, meal_plans, meal_plan_entries, plan, last, calls>>

\* _meal_target(targets, meal_type) for every meal type asked for.
MealTargetCall ==
    /\ fn.op = "call_meal_target"
    /\ fn' = [fn EXCEPT !.op = "meal_target",
                        !.result = Some([mt \in SplitMealTypes |-> _meal_target(fn.targets, mt)])]
    /\ UNCHANGED <<day, recipes, meal_plans, meal_plan_entries, plan, last, calls>>

NextFn == OptimalServingsCall \/ RecipeScoreCall \/ MealTargetCall

SpecFn == InitFn /\ [][NextFn]_vars

\* ---------------------------------- specification: recommend_daily_meals
MaxDailyRecipes == 7

DailyPool == <<L1, M1, B1, X1, D1, L2, L3, L4>>

DailyTargets == {T1, T2}

InitDaily ==
    /\ \E all_recipes \in SubCatalogs(SubSeq(DailyPool, 1, Min(MaxDailyRecipes, Len(DailyPool)))) :
       \E recently_used_ids \in SUBSET Ids(all_recipes) :
       \E targets \in DailyTargets :
          day = [op |-> "call", targets |-> targets, all_recipes |-> all_recipes,
                 recently_used_ids |-> recently_used_ids, selected |-> None]
    /\ fn = NoCall
    /\ recipes = <<>>
    /\ meal_plans = <<>>
    /\ meal_plan_entries = <<>>
    /\ plan = None
    /\ calls = <<>>
    /\ last = NoCall

RecommendDailyMeals ==
    /\ day.op = "call"
    /\ \E selected \in recommend_daily_meals(day.targets, day.all_recipes, day.recently_used_ids) :
          day' = [day EXCEPT !.op = "return", !.selected = Some(selected)]
    /\ UNCHANGED <<fn, recipes, meal_plans, meal_plan_entries, plan, last, calls>>

NextDaily == RecommendDailyMeals

SpecDaily == InitDaily /\ [][NextDaily]_vars

\* ------------------- specification: recommend_daily_meals, small catalogs
\* The same calls on catalogs of at most MaxVarietyRecipes recipes of the
\* pool, for properties that compare a day with every other possible day.
MaxVarietyRecipes == 6

InitVariety ==
    /\ \E all_recipes \in SubCatalogs(SubSeq(DailyPool, 1, Min(MaxVarietyRecipes, Len(DailyPool)))) :
       \E recently_used_ids \in SUBSET Ids(all_recipes) :
       \E targets \in DailyTargets :
          day = [op |-> "call", targets |-> targets, all_recipes |-> all_recipes,
                 recently_used_ids |-> recently_used_ids, selected |-> None]
    /\ fn = NoCall
    /\ recipes = <<>>
    /\ meal_plans = <<>>
    /\ meal_plan_entries = <<>>
    /\ plan = None
    /\ calls = <<>>
    /\ last = NoCall

SpecVariety == InitVariety /\ [][NextDaily]_vars

\* ---------------------- specification: recommend_daily_meals, many candidates
\* recommend_daily_meals on catalogs that give a slot more than TOP_N
\* candidates: the first 0 .. MaxTopRecipes recipes of TopPool, with the first
\* few of them recently used.
MaxTopRecipes == 7

TopPool == <<L1, L2, L3, L5, L6, L7, L4, M1, B1>>

InitTop ==
    /\ \E n \in 0 .. Min(MaxTopRecipes, Len(TopPool)) :
       \E k \in 0 .. n :
       \E targets \in DailyTargets :
          day = [op |-> "call", targets |-> targets,
                 all_recipes |-> SubSeq(TopPool, 1, n),
                 recently_used_ids |-> Ids(SubSeq(TopPool, 1, k)),
                 selected |-> None]
    /\ fn = NoCall
    /\ recipes = <<>>
    /\ meal_plans = <<>>
    /\ meal_plan_entries = <<>>
    /\ plan = None
    /\ calls = <<>>
    /\ last = NoCall

SpecTop == InitTop /\ [][NextDaily]_vars

\* ------------------------------------- specification: weekly generation
\* The first week planned on an empty plan history.
Users == {1, 2}

WeekStarts == {0, 7, 28}

MealTypes == {"breakfast", "lunch", "dinner"}

\* The table recipes after saving a list of recipes into an empty table.
RECURSIVE RecipesTable(_)
RecipesTable(rs) ==
    IF rs = <<>> THEN <<>>
    ELSE save_recipe(RecipesTable(SubSeq(rs, 1, Len(rs) - 1)), rs[Len(rs)])

WeeklyCatalogs ==
    {<<>>, <<B1>>, <<B1, L1>>, <<B1, X1>>, <<M1, L1>>, <<B1, L1, L2>>,
     <<B1, L1, D1>>, <<B1, L1, D1, X1>>, <<B1, L1, D1, L2>>,
     <<B1, L1, D1, L2, L3>>}

WeeklyTargets == {T1}

InitCall == [op |-> "init", seq |-> 0]

InitWeekly ==
    /\ recipes \in {RecipesTable(c) : c \in WeeklyCatalogs}
    /\ meal_plans = <<>>
    /\ meal_plan_entries = <<>>
    /\ plan = None
    /\ calls = <<>>
    /\ last = InitCall
    /\ fn = NoCall
    /\ day = NoCall

\* plan = generate_weekly_plan(user_id, targets, week_start)
GenerateWeeklyPlan ==
    /\ plan = None
    /\ meal_plans = <<>>
    /\ \E user_id \in Users, targets \in WeeklyTargets, week_start \in WeekStarts :
       \E p \in generate_weekly_plan(meal_plans, meal_plan_entries, recipes,
                                     user_id, targets, week_start) :
          /\ plan' = Some(p)
          /\ last' = [op |-> "generate", seq |-> last.seq + 1, user_id |-> user_id,
                      targets |-> targets, week_start |-> week_start,
                      recently_used |-> _get_recently_used_recipe_ids(
                          meal_plans, meal_plan_entries, user_id, week_start,
                          VARIETY_WINDOW_DAYS)]
    /\ UNCHANGED <<fn, day, recipes, meal_plans, meal_plan_entries, calls>>

\* plan_id = save_meal_plan(plan)
SaveMealPlan ==
    /\ plan # None
    /\ LET saved == save_meal_plan(meal_plans, meal_plan_entries, Get(plan))
       IN  /\ meal_plans' = saved.meal_plans
           /\ meal_plan_entries' = saved.meal_plan_entries
           /\ last' = [op |-> "save", seq |-> last.seq + 1, plan_id |-> saved.plan_id]
    /\ plan' = None
    /\ UNCHANGED <<fn, day, recipes, calls>>

NextWeekly == GenerateWeeklyPlan \/ SaveMealPlan

SpecWeekly == InitWeekly /\ [][NextWeekly]_vars

\* ----------------------------------------- specification: regeneration
\* Recipes in the catalog at most, and calls of regenerate_meal at most.
MaxRecipes == 7
MaxRegens == 1

\* The recipes saved, in this order, over time.
RegenPool == <<B1, L1, D1, L2, L3, M1, L4, X1>>

\* The catalog sizes at which the stored plans were generated.
RegenBases == {1, 3}

RegenDays == {0, 3}

RegenTargets == {T1}

\* The tables after generate_weekly_plan and save_meal_plan for (user_id,
\* week_start) on the tables t.
PlannedWeeks(t, recipes_table, user_id, targets, week_start) ==
    {save_meal_plan(t.meal_plans, t.meal_plan_entries, p)
        : p \in generate_weekly_plan(t.meal_plans, t.meal_plan_entries, recipes_table,
                                     user_id, targets, week_start)}

\* One plan of user 1 for week 7 is stored, and possibly a second plan, each
\* generated and saved while the catalog had its base size.
InitRegen ==
    /\ \E base \in RegenBases :
         /\ recipes = RecipesTable(SubSeq(RegenPool, 1, base))
         /\ \E t1 \in PlannedWeeks([meal_plans |-> <<>>, meal_plan_entries |-> <<>>],
                                   recipes, 1, T1, 7) :
              \/ /\ meal_plans = t1.meal_plans
                 /\ meal_plan_entries = t1.meal_plan_entries
              \/ \E user_id \in Users, week_start \in WeekStarts :
                 \E t2 \in PlannedWeeks(t1, recipes, user_id, T1, week_start) :
                    /\ meal_plans = t2.meal_plans
                    /\ meal_plan_entries = t2.meal_plan_entries
    /\ plan = None
    /\ calls = <<>>
    /\ last = InitCall
    /\ fn = NoCall
    /\ day = NoCall

\* save_recipe(the next recipe of the pool)
SaveRecipe ==
    /\ Len(recipes) < Min(MaxRecipes, Len(RegenPool))
    /\ recipes' = save_recipe(recipes, RegenPool[Len(recipes) + 1])
    /\ last' = [op |-> "save_recipe", seq |-> last.seq]
    /\ UNCHANGED <<fn, day, meal_plans, meal_plan_entries, plan, calls>>

\* regenerate_meal(plan_id, day_of_week, meal_type, targets)
RegenerateMeal ==
    /\ last.seq < MaxRegens
    /\ \E plan_id \in 1 .. (Len(meal_plans) + 1), day_of_week \in RegenDays,
          meal_type \in MealTypes, targets \in RegenTargets :
       \E out \in regenerate_meal(meal_plans, meal_plan_entries, recipes,
                                  plan_id, day_of_week, meal_type, targets) :
          /\ meal_plan_entries' = out.meal_plan_entries
          /\ last' = [op |-> "regenerate", seq |-> last.seq + 1, plan_id |-> plan_id,
                      day_of_week |-> day_of_week, meal_type |-> meal_type,
                      targets |-> targets, result |-> out.result,
                      used_ids |-> out.used_ids, exclusion |-> out.exclusion,
                      new_meal |-> out.new_meal]
    /\ UNCHANGED <<fn, day, recipes, meal_plans, plan, calls>>

NextRegen == SaveRecipe \/ RegenerateMeal

SpecRegen == InitRegen /\ [][NextRegen]_vars

\* ------------------------------- specification: planning a week again
\* A plan of user 1 for week 7 is stored, generated while the catalog had
\* its base size; the catalog may have grown since.  The week is planned
\* again, for either user, the new plan is saved, and plans are loaded.
ReplanCatalogs ==
    {<<B1>>, <<B1, L1, D1>>, <<B1, L1, D1, L2>>, <<B1, L1, D1, L2, L3>>}

ReplanBases == {<<B1>>, <<B1, L1, D1>>}

ReplanWeek == 7

InitReplan ==
    /\ \E base \in ReplanBases :
         /\ \E c \in ReplanCatalogs :
              /\ Len(c) >= Len(base)
              /\ recipes = RecipesTable(c)
         /\ \E t1 \in PlannedWeeks([meal_plans |-> <<>>, meal_plan_entries |-> <<>>],
                                   RecipesTable(base), 1, T1, ReplanWeek) :
              /\ meal_plans = t1.meal_plans
              /\ meal_plan_entries = t1.meal_plan_entries
    /\ plan = None
    /\ calls = <<>>
    /\ last = InitCall
    /\ fn = NoCall
    /\ day = NoCall

\* A variant of the call below that also stores the plan it returns.
GenerateWeeklyPlanAgainSaving ==
    /\ plan = None
    /\ last.op = "init"
    /\ \E user_id \in Users :
       \E p \in generate_weekly_plan(meal_plans, meal_plan_entries, recipes,
                                     user_id, T1, ReplanWeek) :
          /\ plan' = Some(p)
          /\ meal_plans' = save_meal_plan(meal_plans, meal_plan_entries, p).meal_plans
          /\ meal_plan_entries' = save_meal_plan(meal_plans, meal_plan_entries, p).meal_plan_entries
          /\ last' = [op |-> "generate", seq |-> last.seq + 1, user_id |-> user_id,
                      targets |-> T1, week_start |-> ReplanWeek,
                      recently_used |-> _get_recently_used_recipe_ids(
                          meal_plans, meal_plan_entries, user_id, ReplanWeek,
                          VARIETY_WINDOW_DAYS)]
    /\ UNCHANGED <<fn, day, recipes, calls>>

\* new_plan = generate_weekly_plan(user.id, targets, week_start), for a week
\* that may have a stored plan already.
GenerateWeeklyPlanAgain ==
    /\ plan = None
    /\ last.op = "init"
    /\ \E user_id \in Users :
       \E p \in generate_weekly_plan(meal_plans, meal_plan_entries, recipes,
                                     user_id, T1, ReplanWeek) :
          /\ plan' = Some(p)
          /\ last' = [op |-> "generate", seq |-> last.seq + 1, user_id |-> user_id,
                      targets |-> T1, week_start |-> ReplanWeek,
                      recently_used |-> _get_recently_used_recipe_ids(
                          meal_plans, meal_plan_entries, user_id, ReplanWeek,
                          VARIETY_WINDOW_DAYS)]
    /\ UNCHANGED <<fn, day, recipes, meal_plans, meal_plan_entries, calls>>

\* plan = load_meal_plan(user_id, week_start)
LoadMealPlan ==
    /\ plan = None
    /\ last.op \in {"init", "save"}
    /\ \E user_id \in Users :
       \E result \in load_meal_plan(meal_plans, meal_plan_entries, user_id, ReplanWeek) :
          last' = [op |-> "load", seq |-> last.seq + 1, user_id |-> user_id,
                   week_start |-> ReplanWeek, result |-> result]
    /\ UNCHANGED <<fn, day, recipes, meal_plans, meal_plan_entries, plan, calls>>

NextReplan == GenerateWeeklyPlanAgain \/ SaveMealPlan \/ LoadMealPlan

SpecReplan == InitReplan /\ [][NextReplan]_vars

\* ------------------------------------ specification: swapping a meal
\* A plan of user 1 for week 7, generated and saved on the catalog as it is
\* now, is stored; meals of it are regenerated.
SwapCatalogs == {<<B1, M1>>, <<B1, L1, D1>>, <<B1, M1, L1>>}

InitSwap ==
    /\ \E c \in SwapCatalogs :
         /\ recipes = RecipesTable(c)
         /\ \E t1 \in PlannedWeeks([meal_plans |-> <<>>, meal_plan_entries |-> <<>>],
                                   recipes, 1, T1, 7) :
              /\ meal_plans = t1.meal_plans
              /\ meal_plan_entries = t1.meal_plan_entries
    /\ plan = None
    /\ calls = <<>>
    /\ last = InitCall
    /\ fn = NoCall
    /\ day = NoCall

NextSwap == RegenerateMeal

SpecSwap == InitSwap /\ [][NextSwap]_vars

\* ------------------------- specification: two regenerate_meal side by side
\* Two callers (two sessions of the page) run regenerate_meal on two
\* different slots of the stored plan 1.  Each call opens its own
\* connection; its SELECTs take no lock that outlasts them, and its UPDATE
\* and commit come after the recommendation, so the reads of one call and
\* the write of the other can come in any order.
Callers == {1, 2}

RaceBase == <<B1, L1, D1>>

RaceCatalog == <<B1, L1, D1, L2, L3, L5, L6>>

RaceSlots == {[day_of_week |-> d, meal_type |-> mt] : d \in RegenDays, mt \in MealTypes}

InitRace ==
    /\ recipes = RecipesTable(RaceCatalog)
    /\ \E t1 \in PlannedWeeks([meal_plans |-> <<>>, meal_plan_entries |-> <<>>],
                              RecipesTable(RaceBase), 1, T1, 7) :
         /\ meal_plans = t1.meal_plans
         /\ meal_plan_entries = t1.meal_plan_entries
    /\ \E s1 \in RaceSlots : \E s2 \in RaceSlots \ {s1} :
         calls = [c \in Callers |->
                    [pc |-> "called", plan_id |-> 1,
                     day_of_week |-> (IF c = 1 THEN s1 ELSE s2).day_of_week,
                     meal_type |-> (IF c = 1 THEN s1 ELSE s2).meal_type,
                     targets |-> T1, new_meal |-> None, result |-> None]]
    /\ plan = None
    /\ last = InitCall
    /\ fn = NoCall
    /\ day = NoCall

\* regenerate_meal up to the choice of new_meal: the plan and its recipe ids
\* are read, the day is recommended, the meal of the slot is taken.  Without
\* a replacement the call returns None here.
RegenerateMealRead ==
    \E c \in Callers :
       /\ calls[c].pc = "called"
       /\ \E out \in regenerate_meal(meal_plans, meal_plan_entries, recipes,
                                     calls[c].plan_id, calls[c].day_of_week,
                                     calls[c].meal_type, calls[c].targets) :
             calls' = [calls EXCEPT ![c].pc = IF out.new_meal = None THEN "returned"
                                               ELSE "chosen",
                                    ![c].new_meal = out.new_meal,
                                    ![c].result = out.result]
       /\ UNCHANGED <<fn, day, recipes, meal_plans, meal_plan_entries, plan, last>>

\* regenerate_meal from the UPDATE on: the entry of the slot is written as
\* the table is now, the connection commits, the entry is returned.
RegenerateMealWrite ==
    \E c \in Callers :
       /\ calls[c].pc = "chosen"
       /\ meal_plan_entries' = UpdateEntry(meal_plan_entries, calls[c].plan_id,
                                           calls[c].day_of_week, calls[c].meal_type,
                                           Get(calls[c].new_meal).recipe.id,
                                           Get(calls[c].new_meal).servings)
       /\ calls' = [calls EXCEPT ![c].pc = "returned"]
       /\ UNCHANGED <<fn, day, recipes, meal_plans, plan, last>>

NextRace == RegenerateMealRead \/ RegenerateMealWrite

SpecRace == InitRace /\ [][NextRace]_vars

\* ------------------------------------------------------------------ claims
\* C1: the list recommend_daily_meals returns never holds two meals with the
\* same recipe id, whatever the catalog, target, exclusion set, relaxation
\* tier and random pick.
C1_NoDuplicateRecipesInDay ==
    day.op = "return" =>
        \A i, j \in DOMAIN Get(day.selected) :
            i # j => Get(day.selected)[i].recipe.id # Get(day.selected)[j].recipe.id

\* A day of three meals, one of them taken after relaxing to tier 2 and one
\* after relaxing to tier 3, with recipes excluded.
C1_Witness ==
    /\ day.op = "return"
    /\ Len(Get(day.selected)) = 3
    /\ day.recently_used_ids # {}
    /\ \E i \in DOMAIN Get(day.selected) : Get(day.selected)[i].tier = 2
    /\ \E i \in DOMAIN Get(day.selected) : Get(day.selected)[i].tier = 3

\* C10: _optimal_servings returns a value between 0.5 and 2.0 (2 and 8
\* quarters) for every recipe (without nutrition and with zero calories
\* included) and every target with non-negative calories.
C10_ServingsWithinBounds ==
    fn.op = "optimal_servings" =>
        /\ Get(fn.result) >= MIN_SERVINGS
        /\ Get(fn.result) <= MAX_SERVINGS

\* A call whose unclamped ratio lies above 2.0, answered 2.0.
C10_Witness ==
    /\ fn.op = "optimal_servings"
    /\ fn.recipe.nutrition # None
    /\ Get(fn.recipe.nutrition).calories > 0
    /\ fn.target.calories > 3 * Get(fn.recipe.nutrition).calories
    /\ Get(fn.result) = MAX_SERVINGS


\* C2: for a catalog in which every recipe has nutrition and exactly one
\* meal-type tag and every meal type has a recipe, with an empty exclusion set,
\* generate_weekly_plan returns 21 entries, no two entries of a day share a
\* recipe id, and every entry's recipe is tagged with the entry's meal type.
C2_Catalog ==
    /\ \A k \in DOMAIN recipes :
          recipes[k].nutrition # None /\ Cardinality(recipes[k].meal_types) = 1
    /\ \A mt \in MealTypes : \E k \in DOMAIN recipes : mt \in recipes[k].meal_types

C2_FullWeek ==
    (last.op = "generate" /\ C2_Catalog /\ last.recently_used = {}) =>
        LET es == Get(plan).entries
        IN  /\ Len(es) = DAYS * MEALS_PER_DAY
            /\ \A i, j \in DOMAIN es :
                  (i # j /\ es[i].day_of_week = es[j].day_of_week)
                      => es[i].recipe_id # es[j].recipe_id
            /\ \A i \in DOMAIN es : es[i].meal_type \in es[i].recipe.meal_types

\* A plan from such a catalog in which the random picks chose two different
\* lunch recipes over the week.
C2_Witness ==
    /\ last.op = "generate"
    /\ C2_Catalog
    /\ last.recently_used = {}
    /\ \E i, j \in DOMAIN Get(plan).entries :
          /\ Get(plan).entries[i].meal_type = "lunch"
          /\ Get(plan).entries[j].meal_type = "lunch"
          /\ Get(plan).entries[i].recipe_id # Get(plan).entries[j].recipe_id

\* C3, as claimed: with recipes tagged breakfast and/or lunch only (none
\* tagged dinner), the plan generate_weekly_plan returns has no dinner entry
\* on any day.
C3_Catalog ==
    /\ recipes # <<>>
    /\ \A k \in DOMAIN recipes :
          /\ recipes[k].meal_types # {}
          /\ recipes[k].meal_types \subseteq {"breakfast", "lunch"}

C3_NoDinnerEntry ==
    (last.op = "generate" /\ C3_Catalog) =>
        \A i \in DOMAIN Get(plan).entries : Get(plan).entries[i].meal_type # "dinner"

\* C3, amended: with such a catalog, a day has no dinner entry exactly when
\* the catalog has fewer than 3 recipes with nutrition; otherwise every day
\* has a dinner entry, filled by the last-resort tier with a recipe that is
\* not tagged dinner.
C3_DinnerOnlyByLastResort ==
    (last.op = "generate" /\ C3_Catalog) =>
        LET es == Get(plan).entries
            dinners(d) == {i \in DOMAIN es : es[i].day_of_week = d /\ es[i].meal_type = "dinner"}
        IN  /\ \A d \in 0 .. (DAYS - 1) :
                  (dinners(d) = {}) <=> (Len(Available(get_all_recipes(recipes))) < MEALS_PER_DAY)
            /\ \A i \in DOMAIN es :
                  es[i].meal_type = "dinner" =>
                      es[i].tier = 3 /\ "dinner" \notin es[i].recipe.meal_types

\* A plan generated from two breakfast/lunch recipes: 14 entries, no dinner.
C3_Witness ==
    /\ last.op = "generate"
    /\ C3_Catalog
    /\ Len(Available(get_all_recipes(recipes))) = 2
    /\ Len(Get(plan).entries) = 2 * DAYS
    /\ \A i \in DOMAIN Get(plan).entries : Get(plan).entries[i].meal_type # "dinner"

\* A step that is a call of regenerate_meal.
IsRegenStep == last'.op = "regenerate" /\ last'.seq = last.seq + 1

\* C4: a successful regenerate_meal changes only recipe_id and servings of
\* the entry at (plan_id, day_of_week, meal_type); every other entry of the
\* plan and every entry of every other plan stays as it was.
C4_RegenerateFrame ==
    [][(IsRegenStep /\ last'.result # None) =>
          /\ meal_plans' = meal_plans
          /\ DOMAIN meal_plan_entries' = DOMAIN meal_plan_entries
          /\ \A k \in DOMAIN meal_plan_entries :
                LET a == meal_plan_entries[k]
                    b == meal_plan_entries'[k]
                IN  /\ b.meal_plan_id = a.meal_plan_id
                    /\ b.day_of_week = a.day_of_week
                    /\ b.meal_type = a.meal_type
                    /\ ~(/\ a.meal_plan_id = last'.plan_id
                         /\ a.day_of_week = last'.day_of_week
                         /\ a.meal_type = last'.meal_type) => b = a
      ]_vars

\* Two plans are stored and a regeneration has put a new recipe into its
\* slot: the entry now differs from the same meal of another day of the plan.
C4_Witness ==
    /\ last.op = "regenerate"
    /\ last.result # None
    /\ Len(meal_plans) = 2
    /\ \E k, j \in DOMAIN meal_plan_entries :
          /\ meal_plan_entries[k].meal_plan_id = last.plan_id
          /\ meal_plan_entries[k].day_of_week = last.day_of_week
          /\ meal_plan_entries[k].meal_type = last.meal_type
          /\ meal_plan_entries[k].recipe_id = Get(last.result).recipe_id
          /\ meal_plan_entries[j].meal_plan_id = last.plan_id
          /\ meal_plan_entries[j].meal_type = last.meal_type
          /\ meal_plan_entries[j].recipe_id # meal_plan_entries[k].recipe_id

\* The recipes eligible for the regenerated meal type: tagged with it, with
\* nutrition, neither in the plan nor in the variety window.
C5_Eligible ==
    {k \in DOMAIN recipes :
        /\ recipes[k].nutrition # None
        /\ last.meal_type \in recipes[k].meal_types
        /\ recipes[k].id \notin last.exclusion}

\* C5, as claimed: with at least 2 eligible candidates, the recipe a
\* successful regenerate_meal writes is none of the recipes the plan held.
C5_NewRecipeNotInPlan ==
    (last.op = "regenerate" /\ last.result # None /\ Cardinality(C5_Eligible) >= 2) =>
        Get(last.result).recipe_id \notin last.used_ids

\* C5, amended: the recipe written is none of the recipes the plan held
\* provided the slot's tier-1 filter (tagged with the meal type, with
\* nutrition, not excluded, not chosen for an earlier slot of the same
\* recommendation run) yields at least 3 candidates.
C5_NewRecipeNotInPlanFromTier1 ==
    (last.op = "regenerate" /\ last.result # None /\ Get(last.new_meal).tier = 1) =>
        Get(last.result).recipe_id \notin last.used_ids

\* A regeneration of a stored plan's meal that was filled from tier 1.
C5_Witness ==
    /\ last.op = "regenerate"
    /\ last.result # None
    /\ Get(last.new_meal).tier = 1
    /\ last.used_ids # {}
    /\ Cardinality(C5_Eligible) >= MIN_CANDIDATES

\* The position of a meal type in meal_order.
SlotIndex(meal_type) == CHOOSE i \in DOMAIN meal_order : meal_order[i] = meal_type

\* C6: when the plan id does not exist or the requested slot has no
\* candidate at any tier (every recipe with nutrition is taken by the
\* earlier slots of the run), regenerate_meal returns None; and whenever it
\* returns None the stored plans and entries are as before the call.
C6_NoReplacementLeavesPlan ==
    [][IsRegenStep =>
          /\ (\/ last'.plan_id \notin DOMAIN meal_plans
              \/ Len(Available(get_all_recipes(recipes))) < SlotIndex(last'.meal_type))
                => last'.result = None
          /\ last'.result = None =>
                /\ meal_plan_entries' = meal_plan_entries
                /\ meal_plans' = meal_plans
      ]_vars

\* A regeneration of a lunch of a stored plan that found no candidate.
C6_Witness ==
    /\ last.op = "regenerate"
    /\ last.plan_id \in DOMAIN meal_plans
    /\ last.meal_type = "lunch"
    /\ last.used_ids # {}
    /\ last.result = None

\* C7, as claimed: regenerate_meal scores the slot's candidates against the
\* fixed fraction of the daily target, for dinner too.
C7_RegenerateTargetIsFixedFraction ==
    (last.op = "regenerate" /\ last.result # None) =>
        Get(last.new_meal).meal_target = _meal_target(last.targets, last.meal_type)

\* The recipe ids of the user's plans whose week_start_date lies in
\* [before_date - window_days, before_date).
C8_WindowIds(user_id, before_date, window_days) ==
    {meal_plan_entries[k].recipe_id : k \in
        {k \in DOMAIN meal_plan_entries :
            LET p == meal_plans[meal_plan_entries[k].meal_plan_id]
            IN  /\ p.user_id = user_id
                /\ p.week_start_date >= before_date - window_days
                /\ p.week_start_date < before_date}}

\* C8, as claimed: _get_recently_used_recipe_ids returns exactly the recipe
\* ids of the user's plans that start in [before_date - window_days,
\* before_date).
C8_RecentlyUsedIsWindow ==
    \A user_id \in Users, before_date \in WeekStarts :
        _get_recently_used_recipe_ids(meal_plans, meal_plan_entries, user_id,
                                      before_date, VARIETY_WINDOW_DAYS)
            = C8_WindowIds(user_id, before_date, VARIETY_WINDOW_DAYS)

\* C11: for a recipe with nutrition and non-zero calories _optimal_servings
\* returns target.calories / recipe.calories rounded to a nearest multiple of
\* 0.25 and then clamped to [0.5, 2.0]: the result is a whole number of
\* quarters, it is the clamped value of a number of quarters r that lies
\* within 0.125 of the ratio, and it is the ratio itself when the ratio is a
\* multiple of 0.25 inside the range; for a recipe without nutrition or with
\* zero calories the result is 1.0.
C11_ServingsIsRoundedClampedRatio ==
    fn.op = "optimal_servings" =>
        LET v == Get(fn.result)
        IN  IF fn.recipe.nutrition = None
            THEN v = DEFAULT_SERVINGS
            ELSE
              LET cal == Get(fn.recipe.nutrition).calories
                  t == fn.target.calories
              IN  IF cal = 0 THEN v = DEFAULT_SERVINGS
                  ELSE /\ v \in MIN_SERVINGS .. MAX_SERVINGS
                       /\ \E r \in 0 .. (ServDen * t + 1) :
                             /\ 2 * r * cal - 2 * ServDen * t <= cal
                             /\ 2 * ServDen * t - 2 * r * cal <= cal
                             /\ v = (IF r < MIN_SERVINGS THEN MIN_SERVINGS
                                     ELSE IF r > MAX_SERVINGS THEN MAX_SERVINGS
                                     ELSE r)
                       /\ (/\ (ServDen * t) % cal = 0
                           /\ ServDen * t >= MIN_SERVINGS * cal
                           /\ ServDen * t <= MAX_SERVINGS * cal)
                             => v * cal = ServDen * t

\* A call whose ratio lies halfway between two multiples of 0.25 inside the
\* range (such as 28/32 = 0.875), answered with a value strictly inside it.
C11_Witness ==
    /\ fn.op = "optimal_servings"
    /\ fn.recipe.nutrition # None
    /\ Get(fn.recipe.nutrition).calories > 0
    /\ 2 * ((ServDen * fn.target.calories) % Get(fn.recipe.nutrition).calories)
          = Get(fn.recipe.nutrition).calories
    /\ Get(fn.result) > MIN_SERVINGS
    /\ Get(fn.result) < MAX_SERVINGS

\* C12: _recipe_score returns exactly 0 if and only if the recipe has no
\* nutrition data; for a recipe with nutrition, a non-negative target and
\* positive servings the score s (num / den) satisfies 0 < s <= 1.
C12_ScoreZeroIffNoNutrition ==
    fn.op = "recipe_score" =>
        LET s == Get(fn.result)
        IN  /\ s.den > 0
            /\ (s.num = 0) <=> (fn.recipe.nutrition = None)
            /\ fn.recipe.nutrition # None => (0 < s.num /\ s.num <= s.den)

\* A recipe with nutrition scored below 1 against a target with a zero field.
C12_Witness ==
    /\ fn.op = "recipe_score"
    /\ fn.recipe.nutrition # None
    /\ fn.target.calories = 0
    /\ Get(fn.result).num > 0
    /\ Get(fn.result).num < Get(fn.result).den

\* The fields _recipe_score reads, and a recipe's absolute deviation from
\* the target of the call in one of them.
C13_Fields == {"calories", "protein_g", "carbs_g", "fat_g"}

C13_Deviation(recipe, f) ==
    Abs(scaled(Get(recipe.nutrition), fn.servings)[f] - fn.target[f])

\* C13: a recipe whose nutrition scaled by the servings equals the target in
\* all four fields scores exactly 1, and a score of 1 is obtained only when
\* every field with a positive target has zero deviation.
C13_PerfectMatchScoresOne ==
    (fn.op = "recipe_score" /\ fn.recipe.nutrition # None) =>
        LET s == Get(fn.result)
        IN  /\ (\A f \in C13_Fields : C13_Deviation(fn.recipe, f) = 0) => s.num = s.den
            /\ s.num = s.den =>
                  \A f \in C13_Fields : fn.target[f] > 0 => C13_Deviation(fn.recipe, f) = 0

\* A perfect match on a target with positive calories, protein and carbs,
\* scored 1.
C13_Witness ==
    /\ fn.op = "recipe_score"
    /\ fn.recipe.nutrition # None
    /\ \A f \in C13_Fields : fn.target[f] > 0 /\ C13_Deviation(fn.recipe, f) = 0
    /\ Get(fn.result).num = Get(fn.result).den

\* Candidate recipe is closer to the target than candidate other: no larger
\* deviation in every field, a strictly smaller one in a field of fs.
C14_Closer(fs) ==
    /\ fn.recipe.nutrition # None
    /\ fn.other.nutrition # None
    /\ \A f \in C13_Fields : C13_Deviation(fn.recipe, f) <= C13_Deviation(fn.other, f)
    /\ \E f \in fs : C13_Deviation(fn.recipe, f) < C13_Deviation(fn.other, f)

C14_ScoresHigher ==
    Get(fn.result).num * Get(fn.other_result).den
        > Get(fn.other_result).num * Get(fn.result).den

\* C14, as claimed: for a fixed target and equal servings the closer
\* candidate scores strictly higher, also when some target fields are 0.
C14_CloserScoresHigher ==
    (fn.op = "recipe_score" /\ C14_Closer(C13_Fields)) => C14_ScoresHigher

\* C14, amended: the closer candidate scores strictly higher provided it is
\* strictly closer in at least one field whose target is positive (a field
\* with target 0 is left out of the score).
C14_CloserOnPositiveTargetScoresHigher ==
    (fn.op = "recipe_score" /\ C14_Closer({f \in C13_Fields : fn.target[f] > 0}))
        => C14_ScoresHigher

\* A comparison against a target with zero carbs in which recipe is strictly
\* closer than other in calories and in carbs.
C14_Witness ==
    /\ fn.op = "recipe_score"
    /\ fn.target.carbs_g = 0
    /\ fn.target.calories > 0
    /\ C14_Closer({"calories"})
    /\ C14_Closer({"carbs_g"})
    /\ C14_ScoresHigher

\* C15: for every daily target the meal targets of breakfast, lunch and
\* dinner add up to the target field by field, and a meal type that is not
\* in the split table gets one third of every field.
C15_SplitsAddUp ==
    fn.op = "meal_target" =>
        LET r == Get(fn.result)
        IN  /\ NutritionAdd(r["breakfast"], NutritionAdd(r["lunch"], r["dinner"])) = fn.targets
            /\ \A f \in C13_Fields : MEALS_PER_DAY * r["snack"][f] = fn.targets[f]

\* The split of a target with four different positive fields.
C15_Witness ==
    /\ fn.op = "meal_target"
    /\ fn.targets.calories > fn.targets.protein_g
    /\ fn.targets.protein_g > 0
    /\ fn.targets.carbs_g > 0
    /\ fn.targets.fat_g > 0
    /\ Get(fn.result)["dinner"].calories > Get(fn.result)["lunch"].calories

\* The meals of the returned day, the ids chosen before its i-th meal, and
\* the catalog recipes with nutrition that are tagged with a meal type.
C16_Selected == Get(day.selected)

C16_Earlier(i) == {C16_Selected[j].recipe.id : j \in 1 .. (i - 1)}

C16_Tagged(meal_type) ==
    {k \in DOMAIN day.all_recipes :
        /\ day.all_recipes[k].nutrition # None
        /\ meal_type \in day.all_recipes[k].meal_types}

\* C16: a recipe without nutrition data is never chosen for a slot, at any
\* relaxation tier, even when it is the only recipe tagged with the slot's
\* meal type.
C16_NoNutritionNeverChosen ==
    day.op = "return" =>
        \A i \in DOMAIN C16_Selected : \A k \in DOMAIN day.all_recipes :
            day.all_recipes[k].id = C16_Selected[i].recipe.id
                => day.all_recipes[k].nutrition # None

\* The only recipe tagged lunch has no nutrition, and lunch was filled.
C16_Witness ==
    /\ day.op = "return"
    /\ \E k \in DOMAIN day.all_recipes :
          /\ day.all_recipes[k].nutrition = None
          /\ "lunch" \in day.all_recipes[k].meal_types
    /\ C16_Tagged("lunch") = {}
    /\ \E i \in DOMAIN C16_Selected : C16_Selected[i].meal_type = "lunch"

\* C17: the variety exclusion never costs a meal: whatever the exclusion
\* set, the day has as many meals as a day recommended from the same catalog
\* and targets with an empty exclusion set.
C17_ExclusionCostsNoMeal ==
    day.op = "return" =>
        \A unexcluded \in recommend_daily_meals(day.targets, day.all_recipes, {}) :
            Len(unexcluded) = Len(C16_Selected)

\* Every recipe tagged lunch is excluded, and the day still has three meals.
C17_Witness ==
    /\ day.op = "return"
    /\ C16_Tagged("lunch") # {}
    /\ \A k \in C16_Tagged("lunch") : day.all_recipes[k].id \in day.recently_used_ids
    /\ Len(C16_Selected) = MEALS_PER_DAY

\* C18: a slot is left unfilled exactly when every recipe with nutrition was
\* chosen for an earlier slot of the day (so an empty catalog yields an empty
\* day).
C18_UnfilledIffExhausted ==
    day.op = "return" =>
        \A i \in DOMAIN meal_order :
            LET filled == \E j \in DOMAIN C16_Selected :
                              C16_Selected[j].meal_type = meal_order[i]
                earlier == {C16_Selected[j].recipe.id : j \in
                               {j \in DOMAIN C16_Selected :
                                   SlotIndex(C16_Selected[j].meal_type) < i}}
                with_nutrition == {day.all_recipes[k].id : k \in
                                      {k \in DOMAIN day.all_recipes :
                                          day.all_recipes[k].nutrition # None}}
            IN  (~filled) <=> (with_nutrition \subseteq earlier)

\* A catalog of three or more recipes of which two have nutrition: two
\* meals, dinner unfilled.
C18_Witness ==
    /\ day.op = "return"
    /\ Len(day.all_recipes) >= 3
    /\ Len(C16_Selected) = 2
    /\ \A j \in DOMAIN C16_Selected : C16_Selected[j].meal_type # "dinner"

\* The tier-1 candidates of the i-th meal: tagged with its meal type, with
\* nutrition, not excluded, not used earlier the same day.
C19_Tier1(i) ==
    {k \in C16_Tagged(C16_Selected[i].meal_type) :
        /\ day.all_recipes[k].id \notin day.recently_used_ids
        /\ day.all_recipes[k].id \notin C16_Earlier(i)}

\* C19: an excluded recipe is chosen for a slot only if the slot's tier-1
\* filter yields fewer than 3 candidates; with 3 or more, the chosen recipe
\* is one of them.
C19_ExcludedOnlyWhenFewCandidates ==
    day.op = "return" =>
        \A i \in DOMAIN C16_Selected :
            /\ C16_Selected[i].recipe.id \in day.recently_used_ids
                  => Cardinality(C19_Tier1(i)) < MIN_CANDIDATES
            /\ Cardinality(C19_Tier1(i)) >= MIN_CANDIDATES
                  => \E k \in C19_Tier1(i) :
                        day.all_recipes[k].id = C16_Selected[i].recipe.id

\* A day with a slot that had 3 tier-1 candidates beside an excluded recipe
\* tagged with its meal type and unused that day, and with another slot
\* filled with an excluded recipe.
C19_Witness ==
    /\ day.op = "return"
    /\ \E i \in DOMAIN C16_Selected :
          /\ Cardinality(C19_Tier1(i)) >= MIN_CANDIDATES
          /\ \E k \in C16_Tagged(C16_Selected[i].meal_type) :
                /\ day.all_recipes[k].id \in day.recently_used_ids
                /\ day.all_recipes[k].id \notin C16_Earlier(i)
    /\ \E j \in DOMAIN C16_Selected : C16_Selected[j].recipe.id \in day.recently_used_ids

\* C20: a recipe that is not tagged with the slot's meal type is chosen only
\* if no recipe with nutrition tagged with the meal type is still unused
\* that day.
C20_UntaggedOnlyWhenNoTaggedLeft ==
    day.op = "return" =>
        \A i \in DOMAIN C16_Selected :
            C16_Selected[i].meal_type \notin C16_Selected[i].recipe.meal_types
                => \A k \in C16_Tagged(C16_Selected[i].meal_type) :
                       day.all_recipes[k].id \in C16_Earlier(i)

\* A slot filled with an untagged recipe after the one tagged recipe with
\* nutrition went to an earlier slot.
C20_Witness ==
    /\ day.op = "return"
    /\ \E i \in DOMAIN C16_Selected :
          /\ C16_Selected[i].meal_type \notin C16_Selected[i].recipe.meal_types
          /\ C16_Tagged(C16_Selected[i].meal_type) # {}

\* What the meals before the i-th meal of the day consumed in field f, in
\* quarters of a unit: the sum of nutrition times servings (in quarters).
RECURSIVE C21_Consumed(_, _)
C21_Consumed(i, f) ==
    IF i <= 1 THEN 0
    ELSE C21_Consumed(i - 1, f)
         + Get(C16_Selected[i - 1].recipe.nutrition)[f] * C16_Selected[i - 1].servings

C22_Pool(i) ==
    LET m == C16_Selected[i]
        avail == {r \in {day.all_recipes[k] : k \in DOMAIN day.all_recipes} :
                     r.nutrition # None /\ r.id \notin C16_Earlier(i)}
        tagged == {r \in avail : m.meal_type \in r.meal_types}
        fresh == {r \in tagged : r.id \notin day.recently_used_ids}
    IN  IF Cardinality(fresh) >= MIN_CANDIDATES THEN fresh
        ELSE IF tagged # {} THEN tagged
        ELSE avail

\* The score of a candidate of the i-th slot at its own optimal servings.
C22_Score(i, r) ==
    LET t == C16_Selected[i].meal_target
    IN  _recipe_score(r, t, _optimal_servings(r, t))

\* C22: the recipe chosen for a slot is one of the min(5, n) highest-scoring
\* of the slot's n candidates, each at its own optimal servings: it is a
\* candidate, it comes with its own optimal servings, and at most 4
\* candidates score strictly higher.
C22_ChosenAmongTopFive ==
    day.op = "return" =>
        \A i \in DOMAIN C16_Selected :
            LET m == C16_Selected[i]
                higher == {r \in C22_Pool(i) :
                              ScoreHigher(C22_Score(i, r), C22_Score(i, m.recipe))}
            IN  /\ m.recipe \in C22_Pool(i)
                /\ m.servings = _optimal_servings(m.recipe, m.meal_target)
                /\ Cardinality(higher) <= TOP_N - 1
                /\ Cardinality(higher) < Cardinality(C22_Pool(i))

\* A slot with more than 5 candidates whose chosen recipe is the fifth best:
\* exactly 4 candidates score strictly higher, and another scores lower.
C22_Witness ==
    /\ day.op = "return"
    /\ \E i \in DOMAIN C16_Selected :
          /\ Cardinality(C22_Pool(i)) > TOP_N
          /\ Cardinality({r \in C22_Pool(i) :
                 ScoreHigher(C22_Score(i, r), C22_Score(i, C16_Selected[i].recipe))}) = TOP_N - 1
          /\ \E r \in C22_Pool(i) :
                 ScoreHigher(C22_Score(i, C16_Selected[i].recipe), C22_Score(i, r))

C24_Rank(meal_type) ==
    CASE meal_type = "breakfast" -> 1
      [] meal_type = "lunch" -> 2
      [] meal_type = "dinner" -> 3
      [] OTHER -> 0

\* C24: a generated plan has at most one entry per (day_of_week,
\* meal_type), every day_of_week in 0..6, every meal_type one of breakfast,
\* lunch, dinner, at most 21 entries, and the entries are in day order and
\* within a day in the order breakfast, lunch, dinner.
C24_PlanShape ==
    plan # None =>
        LET es == Get(plan).entries
        IN  /\ Len(es) <= 21
            /\ \A i \in DOMAIN es :
                  /\ es[i].day_of_week \in 0 .. 6
                  /\ es[i].meal_type \in {"breakfast", "lunch", "dinner"}
            /\ \A i, j \in DOMAIN es :
                  i < j => \/ es[i].day_of_week < es[j].day_of_week
                           \/ /\ es[i].day_of_week = es[j].day_of_week
                              /\ C24_Rank(es[i].meal_type) < C24_Rank(es[j].meal_type)

\* A plan with all 21 entries, from the breakfast of day 0 to the dinner of
\* day 6.
C24_Witness ==
    /\ plan # None
    /\ Len(Get(plan).entries) = 21
    /\ Get(plan).entries[1].day_of_week = 0
    /\ Get(plan).entries[1].meal_type = "breakfast"
    /\ Get(plan).entries[21].day_of_week = 6
    /\ Get(plan).entries[21].meal_type = "dinner"

C26_Slots(es) ==
    {<<es[k].day_of_week, es[k].meal_type, es[k].recipe_id, es[k].servings>> : k \in DOMAIN es}

\* C26: when a plan existed for (user, week_start) and a new plan for the
\* same pair was generated and saved, the next load_meal_plan of the pair
\* returns the entries of the new plan.
C26_LoadReturnsNewPlan ==
    (/\ last.op = "load"
     /\ Len(meal_plans) = 2
     /\ \A k \in {1, 2} : /\ meal_plans[k].user_id = last.user_id
                          /\ meal_plans[k].week_start_date = last.week_start) =>
        /\ last.result # None
        /\ C26_Slots(Get(last.result).entries)
              = C26_Slots(SelectSeq(meal_plan_entries, LAMBDA e : e.meal_plan_id = 2))

\* C27: scoring and serving optimisation divide by nothing that is zero.  A
\* target field that is 0 contributes nothing to the deviation: two recipes
\* that deviate alike in every field with a positive target score the same,
\* and every recipe scores 1 against the target with all four fields 0.  A
\* recipe with 0 calories gets the default serving, and a target of 0
\* calories the smallest serving.
C27_ZeroTargetsContributeNothing ==
    /\ (fn.op = "recipe_score" /\ fn.recipe.nutrition # None /\ fn.other.nutrition # None) =>
          /\ (\A f \in C13_Fields :
                 fn.target[f] > 0 => C13_Deviation(fn.recipe, f) = C13_Deviation(fn.other, f))
                => fn.result = fn.other_result
          /\ (\A f \in C13_Fields : fn.target[f] = 0) =>
                Get(fn.result).num = Get(fn.result).den
          /\ Get(fn.result).num > 0
          /\ Get(fn.result).den >= Get(fn.result).num
    /\ (fn.op = "optimal_servings" /\ fn.recipe.nutrition # None) =>
          /\ Get(fn.recipe.nutrition).calories = 0 => Get(fn.result) = DEFAULT_SERVINGS
          /\ (Get(fn.recipe.nutrition).calories > 0 /\ fn.target.calories = 0) =>
                Get(fn.result) = MIN_SERVINGS

\* Two different recipes, one with 0 calories, scored against the target
\* with all four fields 0: both score 1.
C27_Witness ==
    /\ fn.op = "recipe_score"
    /\ fn.recipe.nutrition # None
    /\ fn.other.nutrition # None
    /\ \A f \in C13_Fields : fn.target[f] = 0
    /\ Get(fn.recipe.nutrition).calories = 0
    /\ Get(fn.other.nutrition).calories > 0
    /\ Get(fn.recipe.nutrition).fat_g # Get(fn.other.nutrition).fat_g
    /\ fn.result = fn.other_result
    /\ Get(fn.result).num = Get(fn.result).den

\* C28: after any number of successful regenerate_meal calls on a generated
\* and saved plan, no two entries of the same day of that plan reference the
\* same recipe.
C28_NoDuplicateInDayAfterRegenerate ==
    \A i, j \in DOMAIN meal_plan_entries :
        (/\ i # j
         /\ meal_plan_entries[i].meal_plan_id = meal_plan_entries[j].meal_plan_id
         /\ meal_plan_entries[i].day_of_week = meal_plan_entries[j].day_of_week) =>
            meal_plan_entries[i].recipe_id # meal_plan_entries[j].recipe_id

\* The stored entries at the slot of the last regenerate_meal call.
C29_AtSlot ==
    {k \in DOMAIN meal_plan_entries :
        /\ meal_plan_entries[k].meal_plan_id = last.plan_id
        /\ meal_plan_entries[k].day_of_week = last.day_of_week
        /\ meal_plan_entries[k].meal_type = last.meal_type}

\* C29: whenever regenerate_meal returns an entry, the stored plan holds at
\* (plan_id, day_of_week, meal_type) exactly one entry, with the recipe_id
\* and the servings of the returned entry, also when generation had left
\* that slot unfilled.
C29_ReturnedEntryIsStored ==
    (last.op = "regenerate" /\ last.result # None) =>
        /\ Cardinality(C29_AtSlot) = 1
        /\ \A k \in C29_AtSlot :
              /\ meal_plan_entries[k].recipe_id = Get(last.result).recipe_id
              /\ meal_plan_entries[k].servings = Get(last.result).servings

\* The stored entries of the plan at the slot of caller c.
C30_AtSlot(c) ==
    {k \in DOMAIN meal_plan_entries :
        /\ meal_plan_entries[k].meal_plan_id = calls[c].plan_id
        /\ meal_plan_entries[k].day_of_week = calls[c].day_of_week
        /\ meal_plan_entries[k].meal_type = calls[c].meal_type}

\* C30: two regenerate_meal calls on two different slots of a plan, their
\* reads and writes in any order: when both have returned and each had at
\* least 3 tier-1 candidates for its slot, the two slots hold different
\* recipes and neither new recipe occurs anywhere else in the plan.
C30_InterleavedAsSequential ==
    (/\ calls # <<>>
     /\ \A c \in Callers : /\ calls[c].pc = "returned"
                           /\ calls[c].result # None
                           /\ Get(calls[c].new_meal).tier = 1) =>
        \A c \in Callers : \A k \in C30_AtSlot(c) :
            \A j \in DOMAIN meal_plan_entries :
                (j # k /\ meal_plan_entries[j].meal_plan_id = calls[c].plan_id) =>
                    meal_plan_entries[j].recipe_id # meal_plan_entries[k].recipe_id

====
